---- MODULE Spec2Model ----
(***************************************************************************)
(* State-machine model of the Day After Day minting backend:               *)
(*   api/recover.js, api/test-mint.js (src/unnamed/part_000),              *)
(*   api/upload.js, api/create-collection.js, and the lifecycle handler    *)
(*   api/poll/[sessionId].js.                                              *)
(* Every await of a handler is a separate step, so that concurrent         *)
(* requests interleave exactly where the JavaScript event loop lets them.  *)
(***************************************************************************)
EXTENDS Integers, Sequences, FiniteSets, TLC

\* ------------------------------------------------------------- bounds
MaxProcs == 2
MaxSessions == 2
MaxClock == 1
MaxCounter == 22
MaxBalance == 5
MaxRuns == 2

\* ---------------------------------------------------------- constants
REQUIRED_USDC == 5
ScanWindow == 20

\* null / undefined, and a present value, as sequences of length 0 and 1
NULL == <<>>
Some(x) == <<x>>
Val(o) == o[1]

FALLBACK_SECRET == Some("dayafterday2026")
CONFIGURED_SECRET == Some("configured-secret")
WRONG_SECRET == Some("wrong")

Procs == 1..MaxProcs
Max(a, b) == IF a > b THEN a ELSE b
WalletIdx == 1..Max(MaxCounter, MaxSessions)
SessionIds == (1..MaxSessions) \X (1..MaxClock)
Methods == {"GET", "POST", "OPTIONS"}
Secrets == {NULL, CONFIGURED_SECRET, FALLBACK_SECRET, WRONG_SECRET}
EnvSecrets == {NULL, CONFIGURED_SECRET}
Deposits == {REQUIRED_USDC - 1, REQUIRED_USDC}

VARIABLES
  env,        \* process.env.RECOVER_SECRET of the deployment
  counter,    \* store key day-after-day:session-counter (NULL when absent)
  store,      \* store keys session:<sessionId> -> session record
  balance,    \* USDC balance of the wallet derived for each session index
  proc,       \* the handler invocations in flight
  mintCount,  \* history: mint transactions broadcast per sessionId
  created,    \* history: session indices drawn by session creation, in order
  up,         \* the /upload invocation
  cc,         \* the /create-collection invocation
  collections \* history: collection tokens minted in this deployment, in order

vars == <<env, counter, store, balance, proc, mintCount, created, up, cc, collections>>

\* ------------------------------------------------------ store helpers
Put(f, k, v) == [x \in DOMAIN f \cup {k} |-> IF x = k THEN v ELSE f[x]]
Remove(f, k) == [x \in DOMAIN f \ {k} |-> f[x]]
\* redis.getJson: the record, or null
GetJson(sid) == IF sid \in DOMAIN store THEN Some(store[sid]) ELSE NULL
\* parseInt(counter || '0')
ParseCounter(c) == IF c = NULL THEN 0 ELSE Val(c)
\* redis.incr: atomic increment, an absent key counts as 0
IncrLost(c) == IF c = NULL THEN Some(1) ELSE c
Incr(c) == Some(ParseCounter(c) + 1)

\* getSessionKeypair(i).publicKey.toBase58(): deterministic, injective in i
PaymentAddress(i) == <<"wallet", i>>
\* `sess_${sessionIndex}_${Date.now()}`
MakeSessionIdNoIndex(i, t) == <<1, t>>
MakeSessionId(i, t) == <<i, t>>

\* ----------------------------------------------------------- responses
NoData == [status |-> "none", mintAddress |-> NULL, balance |-> 0, required |-> 0]
NoFake == [code |-> 0, data |-> NULL]
NoBody == [tag |-> "none", mintAddress |-> NULL, balance |-> 0, required |-> 0,
           result |-> NULL, scanned |-> 0, wallets |-> <<>>]
NoResp == [code |-> 0, body |-> NoBody]
Resp(c, b) == [code |-> c, body |-> b]
ErrorBody(msg) == [NoBody EXCEPT !.tag = msg]

IdleProc ==
  [pc |-> "idle", kind |-> "none", method |-> "none", sessionId |-> NULL,
   secret |-> NULL, test |-> FALSE, session |-> NULL, sessionIndex |-> 0,
   balance |-> NULL, total |-> 0, i |-> 0, found |-> <<>>,
   \* the poll handler's own session and balance variables
   psession |-> NULL, pbalance |-> NULL,
   fake |-> NoFake, resp |-> NoResp,
   \* history of this invocation's effects
   pollCalls |-> 0, storeReads |-> 0, balanceReads |-> 0, writes |-> 0,
   mints |-> 0, sweeps |-> 0, scanned |-> <<>>]

\* the /upload invocation before it starts, in a deployment whose PINATA_JWT is e
NoUpBody == [success |-> FALSE, fileUri |-> NULL, cid |-> NULL, mimeType |-> "none",
             outputType |-> "none", error |-> "none"]
UpStart(e) ==
  [pc |-> "idle", env |-> e, method |-> "none", jwt |-> <<>>, file |-> NULL,
   mimeType |-> "none", outputType |-> "none", pin |-> NULL, upstreamCalls |-> 0,
   resp |-> [code |-> 0, body |-> NoUpBody]]
UpIdle == UpStart(NULL)

\* the /create-collection invocation before it starts, in a deployment whose
\* PINATA_JWT is e; run counts the requests the deployment has received
NoCcBody == [success |-> FALSE, collectionMint |-> NULL, metadataUri |-> NULL,
             imageUri |-> NULL, error |-> "none"]
CcStart(e, run) ==
  [pc |-> "idle", env |-> e, run |-> run, method |-> "none", secret |-> NULL,
   imageUri |-> NULL, metadataUri |-> NULL, uploads |-> 0, mints |-> 0,
   resp |-> [code |-> 0, body |-> NoCcBody]]
CcIdle == CcStart(NULL, 0)

Init ==
  /\ env = CONFIGURED_SECRET
  /\ counter = NULL
  /\ store = [x \in {} |-> x]
  /\ balance = [i \in WalletIdx |-> 0]
  /\ proc = [p \in Procs |-> IdleProc]
  /\ mintCount = [s \in SessionIds |-> 0]
  /\ created = <<>>
  /\ up = UpIdle
  /\ cc = CcIdle
  /\ collections = <<>>

Done(r, code, body) == [r EXCEPT !.pc = "done", !.resp = Resp(code, body)]

\* A request takes the lowest free invocation slot (the slots are interchangeable).
CanStart(p) ==
  /\ proc[p].pc = "idle"
  /\ \A q \in Procs : q < p => proc[q].pc # "idle"

\* The ids a request may name: a stored session, an id no session has, or none.
MissingId == <<0, 0>>
RequestIds == DOMAIN store \cup {MissingId}

\* One step of invocation p, leaving it as r.
Upd(p, r) == proc' = [proc EXCEPT ![p] = r]

\* ------------------------------------------------- api/recover.js guards
\* line 13: secret !== process.env.RECOVER_SECRET && secret !== 'dayafterday2026'
\* (the variant lets every secret through)
UnauthorizedNever(secret, e) == FALSE
Unauthorized(secret, e) == secret # e /\ secret # FALLBACK_SECRET
\* line 25: !sessionId
NoSessionId(sid) == sid = NULL
\* line 46: session.status === 'minted'
IsMintedNever(s) == FALSE
IsMinted(s) == s.status = "minted"
\* line 54: balance < REQUIRED_USDC
InsufficientOffByOne(b) == b < REQUIRED_USDC - 1
Insufficient(b) == b < REQUIRED_USDC
\* line 30: Math.max(1, total - 20)
ScanFrom(total) == Max(1, total - ScanWindow)

\* GET /api/recover: method check, secret check, mode dispatch (lines 6-25)
RecoverStart(p, method, sid, secret) ==
  /\ CanStart(p)
  /\ LET r == [proc[p] EXCEPT !.kind = "recover", !.method = method,
                              !.sessionId = sid, !.secret = secret]
     IN Upd(p, IF method = "OPTIONS" THEN Done(r, 200, ErrorBody("end"))
               ELSE IF method # "GET" THEN Done(r, 405, ErrorBody("Method not allowed"))
               ELSE IF Unauthorized(secret, env) THEN Done(r, 401, ErrorBody("Unauthorized"))
               ELSE [r EXCEPT !.pc = IF NoSessionId(sid) THEN "rec_scan" ELSE "rec_load"])
  /\ UNCHANGED <<env, counter, store, balance, mintCount, created, up, cc, collections>>

\* scan mode: read the counter (lines 26-30)
RecoverScanGet(p) ==
  /\ proc[p].pc = "rec_scan"
  /\ LET total == ParseCounter(counter)
     IN Upd(p, [proc[p] EXCEPT !.pc = "rec_scan_loop", !.total = total,
                               !.i = ScanFrom(total), !.found = <<>>,
                               !.storeReads = @ + 1])
  /\ UNCHANGED <<env, counter, store, balance, mintCount, created, up, cc, collections>>

\* scan mode: one iteration of the loop (lines 30-37)
RecoverScanStep(p) ==
  /\ proc[p].pc = "rec_scan_loop"
  /\ proc[p].i <= proc[p].total
  /\ LET i == proc[p].i
         bal == balance[i]
     IN Upd(p, [proc[p] EXCEPT
                  !.i = i + 1,
                  !.scanned = Append(@, i),
                  !.balanceReads = @ + 1,
                  !.found = IF bal > 0
                            THEN Append(@, [index |-> i, address |-> PaymentAddress(i),
                                            balance |-> bal])
                            ELSE @])
  /\ UNCHANGED <<env, counter, store, balance, mintCount, created, up, cc, collections>>

\* scan mode: the loop is over, answer (line 39)
RecoverScanDone(p) ==
  /\ proc[p].pc = "rec_scan_loop"
  /\ proc[p].i > proc[p].total
  /\ Upd(p, Done(proc[p], 200, [NoBody EXCEPT !.tag = "scan",
                                              !.scanned = proc[p].total,
                                              !.wallets = proc[p].found]))
  /\ UNCHANGED <<env, counter, store, balance, mintCount, created, up, cc, collections>>

\* sessionId mode: load the record, 404, already minted (lines 43-48)
RecoverLoad(p) ==
  /\ proc[p].pc = "rec_load"
  /\ LET s == GetJson(proc[p].sessionId)
         r == [proc[p] EXCEPT !.session = s, !.storeReads = @ + 1]
     IN Upd(p, IF s = NULL THEN Done(r, 404, ErrorBody("Session not found"))
               ELSE IF IsMinted(Val(s))
               THEN Done(r, 200, [NoBody EXCEPT !.tag = "already minted",
                                                !.mintAddress = Val(s).mintAddress])
               ELSE [r EXCEPT !.pc = "rec_balance"])
  /\ UNCHANGED <<env, counter, store, balance, mintCount, created, up, cc, collections>>

\* sessionId mode: balance guard, then delegation to the poll handler (lines 50-73)
RecoverBalance(p) ==
  /\ proc[p].pc = "rec_balance"
  /\ LET b == balance[Val(proc[p].session).sessionIndex]
         r == [proc[p] EXCEPT !.balance = Some(b), !.balanceReads = @ + 1]
     IN Upd(p, IF Insufficient(b)
               THEN Done(r, 200, [NoBody EXCEPT !.tag = "insufficient balance",
                                                !.balance = b,
                                                !.required = REQUIRED_USDC])
               ELSE [r EXCEPT !.pc = "poll_load", !.test = FALSE, !.fake = NoFake,
                              !.pollCalls = @ + 1])
  /\ UNCHANGED <<env, counter, store, balance, mintCount, created, up, cc, collections>>

\* the poll handler has returned: lines 75-78 answer 200 whatever fakeRes._code is
RecoverAnswer(r) ==
  Done(r, 200, [NoBody EXCEPT !.tag = "triggered", !.result = r.fake.data])

\* a store or RPC call of the handler throws: catch, 500 (lines 80-83)
RecoverThrow(p) ==
  /\ proc[p].pc \in {"rec_scan", "rec_scan_loop", "rec_load", "rec_balance"}
  /\ Upd(p, Done(proc[p], 500, ErrorBody("error")))
  /\ UNCHANGED <<env, counter, store, balance, mintCount, created, up, cc, collections>>

\* ------------------------------------ api/poll/[sessionId].js (lifecycle)
PollData(status, addr) == Some([NoData EXCEPT !.status = status, !.mintAddress = addr])
\* api/test-mint.js lines 141-145: the answer carries the poll handler's status code
TestMintAnswer(r) ==
  Done(r, r.fake.code, [NoBody EXCEPT !.tag = "test-mint", !.result = r.fake.data])
\* the HTTP answer of a poll request made over HTTP
PollAnswer(r) ==
  Done(r, r.fake.code, [NoBody EXCEPT !.tag = "poll", !.result = r.fake.data])
\* res.status(code).json(data) of the poll handler, and the return to its caller;
\* the caller answers in the same turn of the event loop
PollReturn(r, code, data) ==
  LET back == [r EXCEPT !.fake = [code |-> code, data |-> data]]
  IN CASE r.kind = "recover" -> RecoverAnswer(back)
       [] r.kind = "testmint" -> TestMintAnswer(back)
       [] OTHER -> PollAnswer(back)

\* GET /api/poll/<sessionId>[?test=true], called over HTTP
PollStart(p, sid, test) ==
  /\ CanStart(p)
  /\ Upd(p, [proc[p] EXCEPT !.kind = "poll", !.method = "GET", !.sessionId = sid,
                            !.test = test, !.pc = "poll_load", !.pollCalls = @ + 1])
  /\ UNCHANGED <<env, counter, store, balance, mintCount, created, up, cc, collections>>

\* load the record: NOT_FOUND, or short-circuit when already minted
PollLoad(p) ==
  /\ proc[p].pc = "poll_load"
  /\ LET s == GetJson(proc[p].sessionId)
         r == [proc[p] EXCEPT !.psession = s, !.storeReads = @ + 1]
     IN Upd(p, IF s = NULL THEN PollReturn(r, 404, PollData("Session not found", NULL))
               ELSE IF Val(s).status = "minted"
               THEN PollReturn(r, 200, PollData("minted", Val(s).mintAddress))
               ELSE [r EXCEPT !.pc = IF r.test THEN "poll_mint" ELSE "poll_balance"])
  /\ UNCHANGED <<env, counter, store, balance, mintCount, created, up, cc, collections>>

\* balance at paymentAddress >= requiredUsdc, else "insufficient", no state change
PollBalance(p) ==
  /\ proc[p].pc = "poll_balance"
  /\ LET s == Val(proc[p].psession)
         b == balance[s.sessionIndex]
         r == [proc[p] EXCEPT !.pbalance = Some(b), !.balanceReads = @ + 1]
     IN Upd(p, IF b < s.requiredUsdc
               THEN PollReturn(r, 200, Some([NoData EXCEPT !.status = "insufficient balance",
                                                           !.balance = b,
                                                           !.required = s.requiredUsdc]))
               ELSE [r EXCEPT !.pc = "poll_mint"])
  /\ UNCHANGED <<env, counter, store, balance, mintCount, created, up, cc, collections>>

\* the Minting Client broadcasts the mint transaction, or throws
PollMint(p, ok) ==
  /\ proc[p].pc = "poll_mint"
  /\ LET MintAddr == <<proc[p].sessionId, mintCount[proc[p].sessionId] + 1>> IN
     IF ok
     THEN /\ mintCount' = [mintCount EXCEPT ![proc[p].sessionId] = @ + 1]
          /\ Upd(p, [proc[p] EXCEPT
                       !.pc = "poll_write", !.mints = @ + 1,
                       !.psession = Some([Val(@) EXCEPT !.status = "minted",
                                                       !.mintAddress = Some(MintAddr),
                                                       !.mintSignature = Some(MintAddr)])])
     ELSE /\ Upd(p, PollReturn(proc[p], 500, PollData("error", NULL)))
          /\ UNCHANGED mintCount
  /\ UNCHANGED <<env, counter, store, balance, created, up, cc, collections>>

\* the one write that changes status: mintAddress, mintSignature, status minted
PollWriteMinted(p) ==
  /\ proc[p].pc = "poll_write"
  /\ store' = Put(store, proc[p].sessionId, Val(proc[p].psession))
  /\ Upd(p, [proc[p] EXCEPT !.pc = "poll_sweep", !.writes = @ + 1])
  /\ UNCHANGED <<env, counter, balance, mintCount, created, up, cc, collections>>

\* the Chain Client sweeps the session wallet to the master wallet, or throws
\* (the session stays minted with sweepSignature null)
PollSweep(p, ok) ==
  /\ proc[p].pc = "poll_sweep"
  /\ IF ok
     THEN /\ balance' = [balance EXCEPT ![Val(proc[p].psession).sessionIndex] = 0]
          /\ Upd(p, [proc[p] EXCEPT
                       !.pc = "poll_write_sweep", !.sweeps = @ + 1,
                       !.psession = Some([Val(@) EXCEPT !.sweepSignature = Some(p)])])
     ELSE /\ Upd(p, PollReturn(proc[p], 500, PollData("error", NULL)))
          /\ UNCHANGED balance
  /\ UNCHANGED <<env, counter, store, mintCount, created, up, cc, collections>>

\* record sweepSignature and answer
PollWriteSweep(p) ==
  /\ proc[p].pc = "poll_write_sweep"
  /\ store' = Put(store, proc[p].sessionId, Val(proc[p].psession))
  /\ Upd(p, PollReturn([proc[p] EXCEPT !.writes = @ + 1], 200,
                       PollData("minted", Val(proc[p].psession).mintAddress)))
  /\ UNCHANGED <<env, counter, balance, mintCount, created, up, cc, collections>>

\* ------------------------------------------------------ api/test-mint.js
\* the session object of lines 106-125
NewSessionWithAddress(sid, idx) ==
  [sessionId |-> sid, sessionIndex |-> idx, paymentAddress |-> PaymentAddress(idx),
   outputType |-> "photo", status |-> "pending", requiredUsdc |-> REQUIRED_USDC,
   buyerWallet |-> "master", mintAddress |-> Some(PaymentAddress(idx)),
   mintSignature |-> NULL, sweepSignature |-> NULL]
NewSession(sid, idx) ==
  [sessionId |-> sid, sessionIndex |-> idx, paymentAddress |-> PaymentAddress(idx),
   outputType |-> "photo", status |-> "pending", requiredUsdc |-> REQUIRED_USDC,
   buyerWallet |-> "master", mintAddress |-> NULL, mintSignature |-> NULL,
   sweepSignature |-> NULL]

Incrementing == Cardinality({q \in Procs : proc[q].pc = "tm_incr"})

\* GET /api/test-mint (lines 91-97); no method or secret guard
TestMintStart(p, method) ==
  /\ CanStart(p)
  /\ ParseCounter(counter) + Incrementing < MaxSessions
  /\ LET r == [proc[p] EXCEPT !.kind = "testmint", !.method = method]
     IN Upd(p, IF method = "OPTIONS" THEN Done(r, 200, ErrorBody("end"))
               ELSE [r EXCEPT !.pc = "tm_incr"])
  /\ UNCHANGED <<env, counter, store, balance, mintCount, created, up, cc, collections>>

\* line 100: sessionIndex = await redis.incr(counter key)
TestMintIncr(p) ==
  /\ proc[p].pc = "tm_incr"
  /\ counter' = Incr(counter)
  /\ created' = Append(created, Val(counter'))
  /\ Upd(p, [proc[p] EXCEPT !.pc = "tm_set", !.sessionIndex = Val(counter')])
  /\ UNCHANGED <<env, store, balance, mintCount, up, cc, collections>>

\* lines 105-131: build the session, write it, call the poll handler in test mode
TestMintSet(p, t) ==
  /\ proc[p].pc = "tm_set"
  /\ LET sid == MakeSessionId(proc[p].sessionIndex, t)
     IN /\ store' = Put(store, sid, NewSession(sid, proc[p].sessionIndex))
        /\ Upd(p, [proc[p] EXCEPT !.pc = "poll_load", !.sessionId = sid, !.test = TRUE,
                                  !.fake = [code |-> 200, data |-> NULL],
                                  !.writes = @ + 1, !.pollCalls = @ + 1])
  /\ UNCHANGED <<env, counter, balance, mintCount, created, up, cc, collections>>

\* lines 147-150: a store call of the handler throws
TestMintThrow(p) ==
  /\ proc[p].pc \in {"tm_incr", "tm_set"}
  /\ Upd(p, Done(proc[p], 500, ErrorBody("error")))
  /\ UNCHANGED <<env, counter, store, balance, mintCount, created, up, cc, collections>>

\* ---------------------------------------------------------- environment
\* a buyer sends USDC to the payment address of a created session
Pay(i, amt) ==
  /\ i <= ParseCounter(counter)
  /\ balance[i] + amt <= MaxBalance
  /\ balance' = [balance EXCEPT ![i] = @ + amt]
  /\ UNCHANGED <<env, counter, store, proc, mintCount, created, up, cc, collections>>

\* the store drops a session record when its time-to-live runs out
Expire(sid) ==
  /\ sid \in DOMAIN store
  /\ store' = Remove(store, sid)
  /\ UNCHANGED <<env, counter, balance, proc, mintCount, created, up, cc, collections>>

Next ==
  \/ \E p \in Procs, m \in Methods, sid \in RequestIds \cup {NULL}, sec \in Secrets :
       RecoverStart(p, m, sid, sec)
  \/ \E p \in Procs : RecoverScanGet(p)
  \/ \E p \in Procs : RecoverScanStep(p)
  \/ \E p \in Procs : RecoverScanDone(p)
  \/ \E p \in Procs : RecoverLoad(p)
  \/ \E p \in Procs : RecoverBalance(p)
  \/ \E p \in Procs : RecoverThrow(p)
  \/ \E p \in Procs, sid \in RequestIds, test \in BOOLEAN : PollStart(p, sid, test)
  \/ \E p \in Procs : PollLoad(p)
  \/ \E p \in Procs : PollBalance(p)
  \/ \E p \in Procs, ok \in BOOLEAN : PollMint(p, ok)
  \/ \E p \in Procs : PollWriteMinted(p)
  \/ \E p \in Procs, ok \in BOOLEAN : PollSweep(p, ok)
  \/ \E p \in Procs : PollWriteSweep(p)
  \/ \E p \in Procs, m \in Methods : TestMintStart(p, m)
  \/ \E p \in Procs : TestMintIncr(p)
  \/ \E p \in Procs, t \in 1..MaxClock : TestMintSet(p, t)
  \/ \E p \in Procs : TestMintThrow(p)
  \/ \E i \in 1..MaxSessions, amt \in Deposits : Pay(i, amt)
  \/ \E sid \in SessionIds : Expire(sid)

Spec == Init /\ [][Next]_vars

\* ------------------------------------------- recovery of an existing session
\* A deployment in which session 1 was created earlier and is pending or minted,
\* its wallet unpaid, underpaid or paid; RECOVER_SECRET may be unset.
Session1 == MakeSessionId(1, 1)
MintedSession(sid, idx, swept) ==
  [NewSession(sid, idx) EXCEPT !.status = "minted",
                               !.mintAddress = Some(<<sid, 1>>),
                               !.mintSignature = Some(<<sid, 1>>),
                               !.sweepSignature = IF swept THEN Some(0) ELSE NULL]
EarlierSessions ==
  {NewSession(Session1, 1), MintedSession(Session1, 1, FALSE),
   MintedSession(Session1, 1, TRUE)}

InitRecover ==
  /\ env \in EnvSecrets
  /\ counter = Some(1)
  /\ \E s \in EarlierSessions :
       /\ store = [x \in {Session1} |-> s]
       /\ mintCount = [x \in SessionIds |->
                         IF x = Session1 /\ s.status = "minted" THEN 1 ELSE 0]
  /\ \E b \in {0} \cup Deposits : balance = [i \in WalletIdx |-> IF i = 1 THEN b ELSE 0]
  /\ proc = [p \in Procs |-> IdleProc]
  /\ created = <<1>>
  /\ up = UpIdle
  /\ cc = CcIdle
  /\ collections = <<>>

NextRecover ==
  \/ \E p \in Procs, m \in Methods, sid \in RequestIds \cup {NULL}, sec \in Secrets :
       RecoverStart(p, m, sid, sec)
  \/ \E p \in Procs : RecoverScanGet(p)
  \/ \E p \in Procs : RecoverScanStep(p)
  \/ \E p \in Procs : RecoverScanDone(p)
  \/ \E p \in Procs : RecoverLoad(p)
  \/ \E p \in Procs : RecoverBalance(p)
  \/ \E p \in Procs : RecoverThrow(p)
  \/ \E p \in Procs : PollLoad(p)
  \/ \E p \in Procs : PollBalance(p)
  \/ \E p \in Procs, ok \in BOOLEAN : PollMint(p, ok)
  \/ \E p \in Procs : PollWriteMinted(p)
  \/ \E p \in Procs, ok \in BOOLEAN : PollSweep(p, ok)
  \/ \E p \in Procs : PollWriteSweep(p)
  \/ \E i \in 1..MaxSessions, amt \in Deposits : Pay(i, amt)
  \/ \E sid \in SessionIds : Expire(sid)

SpecRecover == InitRecover /\ [][NextRecover]_vars

\* ------------------------------------------------- scan of recent wallets
\* A deployment whose counter has run up (or is absent) while the session
\* records expired; some wallets around the scan window still hold USDC.
ScanTotals == {0, 1} \cup ((MaxCounter - 3)..MaxCounter)
ScanCounters == {NULL} \cup {Some(n) : n \in ScanTotals}
FundedCandidates(total) ==
  {1, total - ScanWindow - 1, total - ScanWindow, total - ScanWindow + 1, total}
    \cap WalletIdx

InitScan ==
  /\ env = CONFIGURED_SECRET
  /\ counter \in ScanCounters
  /\ store = [x \in {} |-> x]
  /\ \E F \in SUBSET FundedCandidates(ParseCounter(counter)) :
       balance = [i \in WalletIdx |-> IF i \in F THEN REQUIRED_USDC ELSE 0]
  /\ proc = [p \in Procs |-> IdleProc]
  /\ mintCount = [s \in SessionIds |-> 0]
  /\ created = <<>>
  /\ up = UpIdle
  /\ cc = CcIdle
  /\ collections = <<>>

NextScan ==
  \/ \E p \in Procs, m \in Methods, sid \in RequestIds \cup {NULL}, sec \in Secrets :
       RecoverStart(p, m, sid, sec)
  \/ \E p \in Procs : RecoverScanGet(p)
  \/ \E p \in Procs : RecoverScanStep(p)
  \/ \E p \in Procs : RecoverScanDone(p)
  \/ \E p \in Procs : RecoverLoad(p)
  \/ \E p \in Procs : RecoverThrow(p)

SpecScan == InitScan /\ [][NextScan]_vars

\* ---------------------------------------------------------- api/upload.js
\* Strings that are trimmed are sequences of characters.
RECURSIVE TrimLeft(_)
TrimLeft(str) == IF str # <<>> /\ Head(str) = " " THEN TrimLeft(Tail(str)) ELSE str
RECURSIVE TrimRight(_)
TrimRight(str) ==
  IF str # <<>> /\ str[Len(str)] = " " THEN TrimRight(SubSeq(str, 1, Len(str) - 1)) ELSE str
Trim(str) == TrimRight(TrimLeft(str))

\* line 15: (process.env.PINATA_JWT || '').trim()
PinataJwt(e) == IF e = NULL THEN <<>> ELSE Trim(Val(e))
\* line 34: file.mimetype || 'video/webm'
MimeType(file) == IF file.mimetype = NULL THEN "video/webm" ELSE Val(file.mimetype)
\* lines 35-37: the outputType field, 'video' when absent
OutputType(f) ==
  IF f.isArray THEN f.items[1]
  ELSE IF f.value = NULL THEN "video" ELSE Val(f.value)
\* line 61: !pinData.IpfsHash
NoIpfsHash(data) == data.IpfsHash = NULL \/ data.IpfsHash = Some("")
\* line 66: `https://gateway.pinata.cloud/ipfs/${cid}`
GATEWAY == "https://gateway.pinata.cloud/ipfs/"
FileUri(cid) == <<GATEWAY, cid>>

JwtEnvs == {NULL, Some(<<>>), Some(<<" ", " ">>), Some(<<"j", "w", "t">>),
            Some(<<" ", "j", "w", "t", " ">>)}
Files == {[mimetype |-> NULL], [mimetype |-> Some("image/png")],
          [mimetype |-> Some("video/webm;codecs=vp9")]}
OutputFields == {[isArray |-> FALSE, value |-> NULL, items |-> <<>>],
                 [isArray |-> FALSE, value |-> Some("photo"), items |-> <<>>],
                 [isArray |-> TRUE, value |-> NULL, items |-> <<"photo">>]}
PinStatuses == {200, 401, 500}
\* the body of the pinning response: not JSON, the JSON null, or a JSON object
PinBodies == {[kind |-> "notjson", IpfsHash |-> NULL],
              [kind |-> "null", IpfsHash |-> NULL],
              [kind |-> "object", IpfsHash |-> NULL],
              [kind |-> "object", IpfsHash |-> Some("")],
              [kind |-> "object", IpfsHash |-> Some("bafy-cid")]}

UpDone(u, code, body) == [u EXCEPT !.pc = "done", !.resp = [code |-> code, body |-> body]]
UpError(u, msg) == UpDone(u, 500, [NoUpBody EXCEPT !.error = msg])

\* lines 10-16: method checks, credential check
UploadStart(method) ==
  /\ up.pc = "idle"
  /\ LET u == [up EXCEPT !.method = method, !.jwt = PinataJwt(up.env)]
     IN up' = IF method = "OPTIONS" THEN UpDone(u, 200, [NoUpBody EXCEPT !.error = "end"])
              ELSE IF method # "POST"
              THEN UpDone(u, 405, [NoUpBody EXCEPT !.error = "Method not allowed"])
              ELSE IF u.jwt = <<>> THEN UpError(u, "PINATA_JWT not configured")
              ELSE [u EXCEPT !.pc = "parse"]
  /\ UNCHANGED <<env, counter, store, balance, proc, mintCount, created, cc, collections>>

\* lines 19-40: parse the multipart body, read the file
UploadParse(parsed, file, outputField) ==
  /\ up.pc = "parse"
  /\ up' = IF ~parsed THEN UpError(up, "parse error")
           ELSE IF file = NULL THEN UpError(up, "No file provided")
           ELSE [up EXCEPT !.pc = "pin", !.file = file,
                           !.mimeType = MimeType(Val(file)),
                           !.outputType = OutputType(outputField)]
  /\ UNCHANGED <<env, counter, store, balance, proc, mintCount, created, cc, collections>>

\* lines 52-77: post to the pinning service, read its answer, respond
UploadPin(reached, status, body) ==
  /\ up.pc = "pin"
  /\ LET u == [up EXCEPT !.upstreamCalls = @ + 1,
                         !.pin = IF reached THEN Some([status |-> status, body |-> body])
                                 ELSE NULL]
     IN up' = IF ~reached THEN UpError(u, "fetch failed")
              ELSE IF body.kind = "notjson" THEN UpError(u, "invalid json")
              ELSE IF body.kind = "null" THEN UpError(u, "cannot read properties of null")
              ELSE IF NoIpfsHash(body) THEN UpError(u, "Pinata upload failed")
              ELSE UpDone(u, 200, [NoUpBody EXCEPT !.success = TRUE,
                                                   !.fileUri = Some(FileUri(Val(body.IpfsHash))),
                                                   !.cid = body.IpfsHash,
                                                   !.mimeType = u.mimeType,
                                                   !.outputType = u.outputType])
  /\ UNCHANGED <<env, counter, store, balance, proc, mintCount, created, cc, collections>>

InitUpload ==
  /\ env = CONFIGURED_SECRET
  /\ counter = NULL
  /\ store = [x \in {} |-> x]
  /\ balance = [i \in WalletIdx |-> 0]
  /\ proc = [p \in Procs |-> IdleProc]
  /\ mintCount = [s \in SessionIds |-> 0]
  /\ created = <<>>
  /\ \E e \in JwtEnvs : up = UpStart(e)
  /\ cc = CcIdle
  /\ collections = <<>>

NextUpload ==
  \/ \E m \in Methods : UploadStart(m)
  \/ \E parsed \in BOOLEAN, file \in {NULL} \cup {Some(f) : f \in Files},
        o \in OutputFields : UploadParse(parsed, file, o)
  \/ \E reached \in BOOLEAN, st \in PinStatuses, b \in PinBodies : UploadPin(reached, st, b)

SpecUpload == InitUpload /\ [][NextUpload]_vars

\* ----------------------------------------------- api/create-collection.js
\* line 18: the static secret
STATIC_SECRET == Some("lossy2026")
CcSecrets == {NULL, STATIC_SECRET, WRONG_SECRET}
\* line 108: generateSigner(umi), a fresh mint keypair in every invocation
GenerateSigner(run) == <<"collection", run>>

CcDone(c, code, body) == [c EXCEPT !.pc = "done", !.resp = [code |-> code, body |-> body]]
\* lines 145-148: catch, 500
CcError(c, msg) == CcDone(c, 500, [NoCcBody EXCEPT !.error = msg])

\* a request arrives (the deployment serves them one after the other):
\* lines 13-41, OPTIONS, secret guard, credential check
CreateCollectionStart(method, secret) ==
  /\ cc.pc \in {"idle", "done"}
  /\ cc.run < MaxRuns
  /\ LET c == [CcStart(cc.env, cc.run + 1) EXCEPT !.method = method, !.secret = secret]
     IN cc' = IF method = "OPTIONS" THEN CcDone(c, 200, [NoCcBody EXCEPT !.error = "end"])
              ELSE IF secret # STATIC_SECRET
              THEN CcDone(c, 401, [NoCcBody EXCEPT !.error = "Unauthorized"])
              ELSE IF PinataJwt(c.env) = <<>> THEN CcError(c, "PINATA_JWT not configured")
              ELSE [c EXCEPT !.pc = "fetch"]
  /\ UNCHANGED <<env, counter, store, balance, proc, mintCount, created, up, collections>>

\* lines 46-51: fetch the collection image
CreateCollectionFetch(ok) ==
  /\ cc.pc = "fetch"
  /\ cc' = IF ok THEN [cc EXCEPT !.pc = "pin_image"]
           ELSE CcError(cc, "Could not fetch lossy-collection.jpg from GitHub")
  /\ UNCHANGED <<env, counter, store, balance, proc, mintCount, created, up, collections>>

\* lines 53-67: pin the image
CreateCollectionPinImage(reached, body) ==
  /\ cc.pc = "pin_image"
  /\ LET c == [cc EXCEPT !.uploads = @ + 1]
     IN cc' = IF ~reached THEN CcError(c, "fetch failed")
              ELSE IF body.kind = "notjson" THEN CcError(c, "invalid json")
              ELSE IF body.kind = "null" THEN CcError(c, "cannot read properties of null")
              ELSE IF NoIpfsHash(body) THEN CcError(c, "Image upload failed")
              ELSE [c EXCEPT !.pc = "pin_meta",
                             !.imageUri = Some(FileUri(Val(body.IpfsHash)))]
  /\ UNCHANGED <<env, counter, store, balance, proc, mintCount, created, up, collections>>

\* lines 70-97: pin the metadata document
CreateCollectionPinMeta(reached, body) ==
  /\ cc.pc = "pin_meta"
  /\ LET c == [cc EXCEPT !.uploads = @ + 1]
     IN cc' = IF ~reached THEN CcError(c, "fetch failed")
              ELSE IF body.kind = "notjson" THEN CcError(c, "invalid json")
              ELSE IF body.kind = "null" THEN CcError(c, "cannot read properties of null")
              ELSE IF NoIpfsHash(body) THEN CcError(c, "Metadata upload failed")
              ELSE [c EXCEPT !.pc = "mint",
                             !.metadataUri = Some(FileUri(Val(body.IpfsHash)))]
  /\ UNCHANGED <<env, counter, store, balance, proc, mintCount, created, up, collections>>

\* lines 99-143: createNft(...).sendAndConfirm, answer; nothing is read that
\* would tell whether the deployment already has a collection
CreateCollectionMint(ok) ==
  /\ cc.pc = "mint"
  /\ IF ok
     THEN /\ collections' = Append(collections, GenerateSigner(cc.run))
          /\ cc' = CcDone([cc EXCEPT !.mints = @ + 1], 200,
                          [NoCcBody EXCEPT !.success = TRUE,
                                           !.collectionMint = Some(GenerateSigner(cc.run)),
                                           !.metadataUri = cc.metadataUri,
                                           !.imageUri = cc.imageUri])
     ELSE /\ cc' = CcError(cc, "mint failed")
          /\ UNCHANGED collections
  /\ UNCHANGED <<env, counter, store, balance, proc, mintCount, created, up>>

InitCollection ==
  /\ env = CONFIGURED_SECRET
  /\ counter = NULL
  /\ store = [x \in {} |-> x]
  /\ balance = [i \in WalletIdx |-> 0]
  /\ proc = [p \in Procs |-> IdleProc]
  /\ mintCount = [s \in SessionIds |-> 0]
  /\ created = <<>>
  /\ up = UpIdle
  /\ \E e \in JwtEnvs : cc = CcStart(e, 0)
  /\ collections = <<>>

NextCollection ==
  \/ \E m \in Methods, sec \in CcSecrets : CreateCollectionStart(m, sec)
  \/ \E ok \in BOOLEAN : CreateCollectionFetch(ok)
  \/ \E reached \in BOOLEAN, b \in PinBodies : CreateCollectionPinImage(reached, b)
  \/ \E reached \in BOOLEAN, b \in PinBodies : CreateCollectionPinMeta(reached, b)
  \/ \E ok \in BOOLEAN : CreateCollectionMint(ok)

SpecCollection == InitCollection /\ [][NextCollection]_vars

\* ====================================================================
\* Properties
\* ====================================================================
RecoverDone(p) == proc[p].kind = "recover" /\ proc[p].pc = "done"
Snapshot(p) == Val(proc[p].session)

\* C1: in every interleaving of lifecycle invocations, at most one mint
\* transaction is broadcast per sessionId.
AtMostOneMintPerSession == \A sid \in SessionIds : mintCount[sid] <= 1

\* C2: a GET /recover whose secret is not exactly the configured RECOVER_SECRET
\* is answered 401 and performs no store read, balance query or lifecycle call.
ExactSecret(p) == env # NULL /\ proc[p].secret = env
OnlyExactSecretPasses ==
  \A p \in Procs :
    (proc[p].kind = "recover" /\ proc[p].method = "GET" /\ ~ExactSecret(p))
      => /\ proc[p].pc = "done"
         /\ proc[p].resp.code = 401
         /\ proc[p].storeReads = 0
         /\ proc[p].balanceReads = 0
         /\ proc[p].pollCalls = 0

\* C3: no step changes a stored session's status to an earlier value of
\* pending -> paid -> minted.
Rank(st) == CASE st = "pending" -> 0 [] st = "paid" -> 1 [] st = "minted" -> 2
MintAddressIffMinted ==
  \A sid \in DOMAIN store :
    (store[sid].mintAddress # NULL) <=> (store[sid].status = "minted")
PendingAndMintedStored ==
  /\ \E sid \in DOMAIN store :
       store[sid].status = "minted" /\ store[sid].mintAddress # NULL
  /\ \E sid \in DOMAIN store :
       store[sid].status = "pending" /\ store[sid].mintAddress = NULL

\* C5: an authorized /recover on a session read as minted answers with the
\* recorded mintAddress, calls no lifecycle handler, broadcasts nothing and
\* writes nothing, however often it is repeated.
RecoverMintedIdempotent ==
  \A p \in Procs :
    (RecoverDone(p) /\ proc[p].session # NULL /\ Snapshot(p).status = "minted")
      => /\ proc[p].resp.code = 200
         /\ proc[p].resp.body.tag = "already minted"
         /\ proc[p].resp.body.mintAddress = Snapshot(p).mintAddress
         /\ proc[p].pollCalls = 0
         /\ proc[p].mints = 0
         /\ proc[p].sweeps = 0
         /\ proc[p].writes = 0
RecoveredMintedTwice ==
  /\ \A p \in Procs :
       /\ RecoverDone(p)
       /\ proc[p].session # NULL
       /\ Snapshot(p).status = "minted"
       /\ proc[p].resp.body.tag = "already minted"
  /\ \A p \in Procs : proc[p].sessionId \in DOMAIN store
                      /\ store[proc[p].sessionId] = Snapshot(p)

\* C6: an authorized /recover on a non-minted session whose wallet holds less
\* than the required payment answers "insufficient balance" with the balance
\* and the requirement, calls no lifecycle handler and writes nothing.
RecoverInsufficientNoEffect ==
  \A p \in Procs :
    (/\ RecoverDone(p)
     /\ proc[p].session # NULL
     /\ Snapshot(p).status # "minted"
     /\ proc[p].balance # NULL
     /\ Val(proc[p].balance) < REQUIRED_USDC)
      => /\ proc[p].resp.code = 200
         /\ proc[p].resp.body.tag = "insufficient balance"
         /\ proc[p].resp.body.balance = Val(proc[p].balance)
         /\ proc[p].resp.body.required = REQUIRED_USDC
         /\ proc[p].pollCalls = 0
         /\ proc[p].mints = 0
         /\ proc[p].sweeps = 0
         /\ proc[p].writes = 0
RecoveredUnderpaid ==
  \E p \in Procs :
    /\ RecoverDone(p)
    /\ proc[p].resp.body.tag = "insufficient balance"
    /\ proc[p].resp.body.balance = REQUIRED_USDC - 1
    /\ proc[p].sessionId \in DOMAIN store
    /\ store[proc[p].sessionId] = Snapshot(p)
    /\ Snapshot(p).status = "pending"

\* C8: an authorized /recover with a sessionId answers 404 when no record is
\* stored, 500 whenever an internal step fails, the delegated poll handler
\* ending in an error status included, and 200 {triggered, result} only when
\* the delegated run did not fail.
RecoverErrorsSurface ==
  \A p \in Procs :
    (RecoverDone(p) /\ proc[p].storeReads >= 1 /\ proc[p].sessionId # NULL)
      => /\ (proc[p].session = NULL) => (proc[p].resp.code = 404)
         /\ (proc[p].pollCalls = 1 /\ proc[p].fake.code >= 400)
              => (proc[p].resp.code = 500)
         /\ (proc[p].resp.body.tag = "triggered")
              => (proc[p].resp.code = 200 /\ proc[p].fake.code < 400)

\* C9: created sessions draw distinct, strictly increasing indices, stored
\* sessions never share an index, id or payment address, and the counter
\* never decreases.
IndicesDistinct ==
  /\ \A i, j \in 1..Len(created) : i < j => created[i] < created[j]
  /\ \A i \in 1..Len(created) : created[i] <= ParseCounter(counter)
  /\ \A a, b \in DOMAIN store :
       a # b => /\ store[a].sessionIndex # store[b].sessionIndex
                /\ store[a].paymentAddress # store[b].paymentAddress
  /\ \A p, q \in Procs :
       (p # q /\ proc[p].sessionIndex > 0 /\ proc[q].sessionIndex > 0)
         => /\ proc[p].sessionIndex # proc[q].sessionIndex
            /\ (proc[p].sessionId # NULL /\ proc[q].sessionId # NULL)
                 => proc[p].sessionId # proc[q].sessionId
SessionIndexUnique ==
  [](IndicesDistinct) /\ [][ParseCounter(counter') >= ParseCounter(counter)]_vars
TwoSessionsCreated ==
  /\ Len(created) = 2
  /\ Cardinality(DOMAIN store) = 2
  /\ \A p \in Procs : proc[p].kind = "testmint" /\ proc[p].sessionIndex > 0

\* C7: an authorized /recover without sessionId scans exactly the last 20
\* session indices (none below 1, none when the counter is 0 or absent),
\* returns exactly the scanned indices whose wallet holds USDC, in increasing
\* order, and writes, mints and sweeps nothing.
SetOf(seq) == {seq[k] : k \in 1..Len(seq)}
LastIndices(total, n) == {i \in 1..total : i > total - n}
ScanDone(p) == RecoverDone(p) /\ proc[p].resp.body.tag = "scan"
ScansLastTwenty ==
  \A p \in Procs :
    ScanDone(p)
      => /\ SetOf(proc[p].scanned) = LastIndices(proc[p].total, ScanWindow)
         /\ Len(proc[p].scanned) <= ScanWindow
         /\ proc[p].resp.body.scanned = proc[p].total
         /\ LET w == proc[p].resp.body.wallets
            IN /\ {w[k].index : k \in 1..Len(w)}
                    = {i \in SetOf(proc[p].scanned) : balance[i] > 0}
               /\ \A j, k \in 1..Len(w) : j < k => w[j].index < w[k].index
               /\ \A k \in 1..Len(w) : w[k].balance = balance[w[k].index]
         /\ proc[p].writes = 0
         /\ proc[p].mints = 0
         /\ proc[p].sweeps = 0

\* C10: POST /upload answers 200 {fileUri, cid, mimeType, outputType}, fileUri
\* being the gateway prefix followed by the cid, only when the pinning service
\* accepted the upload; a missing PINATA_JWT (found before any upstream call),
\* a non-2xx pinning response or a malformed response body yields 500.
Is2xx(code) == code >= 200 /\ code < 300
Blank(str) == \A k \in 1..Len(str) : str[k] = " "
CredentialMissing == up.env = NULL \/ Blank(Val(up.env))
HasCid(body) == body.kind = "object" /\ body.IpfsHash # NULL /\ body.IpfsHash # Some("")
UploadPostDone == up.pc = "done" /\ up.method = "POST"
UploadSucceedsOnlyWhenPinned ==
  UploadPostDone
    => /\ (up.resp.code = 200)
            => /\ up.pin # NULL
               /\ Is2xx(Val(up.pin).status)
               /\ HasCid(Val(up.pin).body)
               /\ up.resp.body.success
               /\ up.resp.body.cid = Val(up.pin).body.IpfsHash
               /\ up.resp.body.fileUri = Some(<<GATEWAY, Val(up.resp.body.cid)>>)
               /\ up.resp.body.mimeType = up.mimeType
               /\ up.resp.body.outputType = up.outputType
       /\ CredentialMissing => (up.resp.code = 500 /\ up.upstreamCalls = 0)
       /\ (up.pin # NULL /\ ~Is2xx(Val(up.pin).status)) => (up.resp.code = 500)
       /\ (up.pin # NULL /\ ~HasCid(Val(up.pin).body)) => (up.resp.code = 500)

\* C11: a /create-collection request whose secret is not the static secret is
\* answered 401 and causes no upload and no mint, and over any sequence of
\* authorized invocations in one deployment at most one collection token is
\* minted.
CcRefused == cc.pc = "done" /\ cc.method # "OPTIONS" /\ cc.secret # STATIC_SECRET
CollectionBootstrapGuardedOnce ==
  /\ CcRefused => cc.resp.code = 401 /\ cc.uploads = 0 /\ cc.mints = 0
  /\ Len(collections) <= 1

\* C12: a /recover request invokes the lifecycle handler at most once, and only
\* after its guards passed in order: method GET, secret accepted, record
\* found, status not minted, wallet balance at least the required payment; a
\* request stopped by a guard has invoked no lifecycle handler, written
\* nothing and broadcast neither a mint nor a sweep.
Accepted(p) == proc[p].secret = env \/ proc[p].secret = FALLBACK_SECRET
PassedAccess(p) == proc[p].method = "GET" /\ Accepted(p)
PassedRecord(p) ==
  PassedAccess(p) /\ proc[p].session # NULL /\ Snapshot(p).status # "minted"
PassedBalance(p) ==
  PassedRecord(p) /\ proc[p].balance # NULL /\ Val(proc[p].balance) >= REQUIRED_USDC
RecoverDelegatesOnceAfterGuards ==
  \A p \in Procs :
    proc[p].kind = "recover"
      => /\ proc[p].pollCalls <= 1
         /\ proc[p].pollCalls = 1 => PassedBalance(p)
         /\ proc[p].storeReads > 0 => PassedAccess(p)
         /\ (proc[p].sessionId # NULL /\ proc[p].balanceReads > 0) => PassedRecord(p)
         /\ (proc[p].pc = "done" /\ ~PassedBalance(p))
              => /\ proc[p].pollCalls = 0
                 /\ proc[p].resp.body.tag # "triggered"
         /\ proc[p].pollCalls = 0
              => proc[p].writes = 0 /\ proc[p].mints = 0 /\ proc[p].sweeps = 0
RecoverTriggeredAndRefused ==
  /\ \E p \in Procs :
       /\ RecoverDone(p)
       /\ proc[p].resp.body.tag = "triggered"
       /\ proc[p].pollCalls = 1
       /\ proc[p].mints = 1
       /\ proc[p].sweeps = 1
  /\ \E q \in Procs :
       /\ RecoverDone(q)
       /\ proc[q].sessionId # NULL
       /\ proc[q].resp.code = 401

====
